---- MODULE Spec2Model ----
(***************************************************************************)
(* Explosion simulator (pyokosmeme/SpaceExplosions).                       *)
(*                                                                         *)
(* The module models the simulator component (advanced-explosion.jsx, kept *)
(* as src/unnamed/part_000), the clock helpers of src/simulation-utils.js  *)
(* and the way the component and the test file import those helpers.       *)
(*                                                                         *)
(* Numbers.  JavaScript numbers are doubles; the model works on integers   *)
(* in fixed units and carries the IEEE specials as one value:              *)
(*   time      1 = 0.1 s            (maxAge 2.5 s = 25)                    *)
(*   velocity  1 = 1 m/s            (PHYS_SCALE 14.43 is kept in hundredths)*)
(*   position  1 = 0.1              (velocity * time)                      *)
(*   size      1 = 0.01             (bounding box of a piece)              *)
(*   mass      1 = 0.001            (gasParticleMass)                      *)
(*   rotation  1 = 0.01 rad,  opacity 1 = 0.01,  point size 1 = 0.0001     *)
(*   NaN       a non-finite double (NaN or +-Infinity): every arithmetic   *)
(*             operation with a NaN operand yields NaN, every comparison   *)
(*             with it is false.  No branch of the component compares a    *)
(*             velocity or a position, so +-Infinity and NaN act alike     *)
(*             there; the clock helpers are only ever given NaN.           *)
(* A division is rounded down to the unit (the double's rounding, made     *)
(* coarse), so "equal within tolerance" reads "differs by less than the    *)
(* rounding of one division".                                              *)
(***************************************************************************)
EXTENDS Integers, Sequences, FiniteSets, TLC

VARIABLES
    ui,                 \* React state of the component (useState values)
    refs,               \* timeScaleRef.current, isPlayingRef.current
    currentObject,      \* the intact mesh: its shape kind and visibility
    preCreatedChunks,   \* the fragment records of the current shape
    explosionChunksRef, \* "empty": explosionChunks = [], "preCreated": it aliases preCreatedChunks
    gasParticles,       \* id of the gas buffer the closure references, 0 = null
    gasHeap,            \* every gas buffer created so far, by id
    sceneGas,           \* ids of the gas buffers that are children of the scene
    centerOfMass,       \* closure variable centerOfMass
    comVel,             \* closure variable comVel
    frameIsCoMSetting,  \* closure variable frameIsCoMSetting
    rng,                \* rng.seed of the SeededRandom instance, as two 16-bit limbs
    rngTrace,           \* the seed rng was constructed or last reset with, the values
                        \* next() returned since, and the number of next() calls so far
    lastError,          \* exception thrown by the last handler, "none" when it returned
    lastExplosion,      \* record of the most recent completed explosion
    prevExplosion,      \* record of the completed explosion before it
    call,               \* last call of a simulation-utils function: caller, name, arguments, result
    simTime,            \* sum of the simulation deltas of the frames so far
    edits,              \* number of control changes made so far
    loader              \* main.js: threeModulePromise, the imports started and the calls made

vars == << ui, refs, currentObject, preCreatedChunks, explosionChunksRef, gasParticles,
           gasHeap, sceneGas, centerOfMass, comVel, frameIsCoMSetting, rng, rngTrace,
           lastError, lastExplosion, prevExplosion, call, simTime, edits, loader >>

simVars == << ui, refs, currentObject, preCreatedChunks, explosionChunksRef, gasParticles,
              gasHeap, sceneGas, centerOfMass, comVel, frameIsCoMSetting, rng, rngTrace,
              lastError, lastExplosion, prevExplosion, simTime, edits, loader >>

-----------------------------------------------------------------------------
(* Bounds of the model                                                     *)

MaxChunks == 2          \* fragments of a decomposition the model tracks
MaxGas == 1             \* gas particles of a buffer the model tracks
MaxExplosions == 2      \* explosions (gas buffers created) in one run
MaxTime == 25           \* simulated time in one run, in 0.1 s
MaxEdits == 1           \* control changes in one run

-----------------------------------------------------------------------------
(* Doubles                                                                 *)

NaN == -2147483647

IsNaN(x) == x = NaN

Add(a, b) == IF a = NaN \/ b = NaN THEN NaN ELSE a + b
Sub(a, b) == IF a = NaN \/ b = NaN THEN NaN ELSE a - b
Mul(a, b) == IF a = NaN \/ b = NaN THEN NaN ELSE a * b
\* a / b, rounded down to the unit; x / 0 is non-finite
Div(a, b) == IF a = NaN \/ b = NaN \/ b = 0 THEN NaN
             ELSE IF b > 0 THEN a \div b ELSE (0 - a) \div (0 - b)

\* Math.max(a, b): NaN when either argument is NaN
MathMax(a, b) == IF a = NaN \/ b = NaN THEN NaN ELSE IF a > b THEN a ELSE b
\* a >= b on doubles: false when either is NaN
Geq(a, b) == a # NaN /\ b # NaN /\ a >= b

Vec(x, y, z) == << x, y, z >>
Zero3 == Vec(0, 0, 0)
VAdd(a, b) == << Add(a[1], b[1]), Add(a[2], b[2]), Add(a[3], b[3]) >>
VSub(a, b) == << Sub(a[1], b[1]), Sub(a[2], b[2]), Sub(a[3], b[3]) >>
VScale(a, k) == << Mul(a[1], k), Mul(a[2], k), Mul(a[3], k) >>
VDiv(a, k) == << Div(a[1], k), Div(a[2], k), Div(a[3], k) >>

-----------------------------------------------------------------------------
(* src/simulation-utils.js                                                 *)

clampTimeScaleNoNaNCheck(timeScale) == MathMax(0, timeScale)

clampTimeScale(timeScale) ==
    IF IsNaN(timeScale) THEN 0 ELSE MathMax(0, timeScale)

computeSimulationDelta(rawDelta, timeScale, isPlaying) ==
    IF ~isPlaying THEN 0
    ELSE LET safeDelta == MathMax(0, rawDelta)
             safeScale == clampTimeScale(timeScale)
         IN  Mul(safeDelta, safeScale)

resolveTimeStepIgnoringPause(isPlaying, simulationDelta, rawDelta) == simulationDelta

resolveTimeStep(isPlaying, simulationDelta, rawDelta) ==
    IF isPlaying THEN simulationDelta ELSE MathMax(0, rawDelta)

\* module.exports of simulation-utils.js
moduleExports == { "computeSimulationDelta", "resolveTimeStep" }

\* the names the test file destructures from require('../simulation-utils.js')
testImports == { "clampTimeScale", "computeSimulationDelta", "resolveTimeStep" }

\* the names the component imports from './simulation-utils.js'
componentImports == { "clampTimeScale", "computeSimulationDelta", "resolveTimeStep" }

\* the function definitions of the file, applied to an argument tuple
Apply(name, args) ==
    CASE name = "clampTimeScale" -> clampTimeScale(args[1])
      [] name = "computeSimulationDelta" -> computeSimulationDelta(args[1], args[2], args[3])
      [] name = "resolveTimeStep" -> resolveTimeStep(args[1], args[2], args[3])

\* calling an imported binding: a name the module does not export is undefined,
\* and calling undefined throws a TypeError
CallImported(name, args) ==
    IF name \in moduleExports
    THEN [ via |-> "import", fn |-> name, args |-> args, error |-> "none",
           result |-> Apply(name, args) ]
    ELSE [ via |-> "import", fn |-> name, args |-> args, error |-> "TypeError", result |-> NaN ]

-----------------------------------------------------------------------------
(* Uniform draws                                                           *)
(*                                                                         *)
(* A uniform value u in [0,1) is carried as the 32-bit numerator of the    *)
(* fraction u = n / 2^32, n = hi * 65536 + lo, as the pair << hi, lo >>.   *)

Limb == 65536

\* 1664525 = 25 * 65536 + 26125, 1013904223 = 15470 * 65536 + 62303
lcgMulHi == 25
lcgMulLo == 26125
lcgIncHi == 15470
lcgIncLo == 62303

\* An integer below 2^64 is four limbs, least significant first.

\* number of bits of x: 0 for 0
RECURSIVE BitLength(_)
BitLength(x) == IF x = 0 THEN 0 ELSE 1 + BitLength(x \div 2)

RECURSIVE Pow2(_)
Pow2(n) == IF n = 0 THEN 1 ELSE 2 * Pow2(n - 1)

\* the limbs of a sum of limb-weighted terms: carries propagated from limb i on
RECURSIVE Normalize(_, _, _)
Normalize(a, i, carry) ==
    IF i > Len(a) THEN << >>
    ELSE IF i = Len(a) THEN << a[i] + carry >>
    ELSE << (a[i] + carry) % Limb >> \o Normalize(a, i + 1, (a[i] + carry) \div Limb)

\* x rounded to a multiple of q, ties to the even multiple
RoundLimb(x, q) ==
    (x - (x % q)) + (IF 2 * (x % q) > q \/ (2 * (x % q) = q /\ (x \div q) % 2 = 1) THEN q ELSE 0)

\* The double nearest to the integer a (ties to even): exact below 2^53, that is
\* while the top limb is below 2^5; above, the bits under the 53-bit mantissa,
\* at most eleven of the lowest limb, are rounded away.
RoundToDouble(a) ==
    IF a[4] < 32 THEN a
    ELSE Normalize(<< RoundLimb(a[1], Pow2(BitLength(a[4]) - 5)), a[2], a[3], a[4] >>, 1, 0)

\* a wider multiplier, 4096 * 65536 + 26125: the product passes 2^53
LcgProductWide(seed) ==
    RoundToDouble(Normalize(<< seed[2] * lcgMulLo,
                               seed[1] * lcgMulLo + seed[2] * 4096,
                               seed[1] * 4096,
                               0 >>, 1, 0))

\* this.seed * 1664525, the double
LcgProduct(seed) ==
    RoundToDouble(Normalize(<< seed[2] * lcgMulLo,
                               seed[1] * lcgMulLo + seed[2] * lcgMulHi,
                               seed[1] * lcgMulHi,
                               0 >>, 1, 0))

\* ... + 1013904223, the double
LcgSum(a) ==
    RoundToDouble(Normalize(<< a[1] + lcgIncLo, a[2] + lcgIncHi, a[3], a[4] >>, 1, 0))

\* ... % 4294967296: the two low limbs, as << high, low >>
Mod2Pow32(a) == << a[2], a[1] >>

\* new SeededRandom(seed)
NewSeededRandom(seed) == seed

\* SeededRandom.next(): this.seed = (this.seed * 1664525 + 1013904223) % 4294967296,
\* computed on doubles; % 4294967296 keeps the two low limbs.  The value returned
\* is this.seed / 4294967296, carried as its numerator, the new seed.
SeededRandomNext(seed) == Mod2Pow32(LcgSum(LcgProduct(seed)))

\* a reset that leaves this.seed as it is
SeededRandomResetKeeping(seed) == rng

\* SeededRandom.reset(seed)
SeededRandomReset(seed) == seed

\* Math.random(): the engine's generator, outside the program's control.  Run k of
\* it is a fixed periodic sequence; run 1 begins with the value 0, which the
\* range [0, 1) of Math.random() allows.
NumStreams == 2
mathRandomCycle == << 20000, 5000, 40000, 60000, 30000, 50000, 10000 >>
MathRandom(k, i) ==
    IF k = 1 /\ i = 1 THEN << 0, 0 >>
    ELSE << mathRandomCycle[((i + k) % Len(mathRandomCycle)) + 1], 0 >>

\* The first n values drawn by an explosion: `useRandomSeed ? rng.next() : Math.random()`
RECURSIVE SeededDraws(_, _)
SeededDraws(seed, n) ==
    IF n = 0 THEN << >>
    ELSE LET s == SeededRandomNext(seed) IN << s >> \o SeededDraws(s, n - 1)

Draws(useRandomSeed, seed, k, n) ==
    IF useRandomSeed THEN SeededDraws(seed, n)
    ELSE [ i \in 1..n |-> MathRandom(k, i) ]

\* rng.seed after n draws (unchanged when the draws come from Math.random())
RngAfter(useRandomSeed, seed, n) ==
    IF useRandomSeed /\ n > 0 THEN SeededDraws(seed, n)[n] ELSE seed

-----------------------------------------------------------------------------
(* Math functions on the draws, evaluated on a quarter grid: the argument  *)
(* is first rounded down to a multiple of 1/4, the result to an integer.   *)

Quarter(u) == u[1] \div (Limb \div 4)

\* Math.sqrt(-2 * Math.log(u)); Math.log(0) is -Infinity
boxMullerRadiusTable == << 2, 1, 1, 0 >>
BoxMullerRadius(u) ==
    IF u = << 0, 0 >> THEN NaN ELSE boxMullerRadiusTable[Quarter(u) + 1]

\* Math.cos(2 * Math.PI * u), Math.sin(2 * Math.PI * u)
cosTable == << 1, 0, -1, 0 >>
sinTable == << 0, 1, 0, -1 >>
Cos2Pi(u) == cosTable[Quarter(u) + 1]
Sin2Pi(u) == sinTable[Quarter(u) + 1]

\* phi = Math.acos(2 * u - 1): Math.cos(phi) = 2u - 1 and Math.sin(phi) =
\* 2 * sqrt(u * (1 - u)), at u = 0, 1/4, 1/2, 3/4: -1, -0.5, 0, 0.5 and
\* 0, 0.866, 1, 0.866, rounded to the nearest integer (a half rounds up)
cosPhiTable == << -1, 0, 0, 1 >>
sinPhiTable == << 0, 1, 1, 1 >>
CosPhi(u) == cosPhiTable[Quarter(u) + 1]
SinPhi(u) == sinPhiTable[Quarter(u) + 1]

\* Math.floor(u * n)
FloorScaled(u, n) == (u[1] * n + (u[2] * n) \div Limb) \div Limb

\* u < num / 10
LessThanTenths(u, num) ==
    LET hiT == (num * Limb) \div 10
        loT == (((num * Limb) % 10) * Limb) \div 10
    IN  u[1] < hiT \/ (u[1] = hiT /\ u[2] <= loT)

\* Math.sqrt(x), rounded down
RECURSIVE SqrtSearch(_, _, _)
SqrtSearch(x, lo, hi) ==
    IF lo = hi THEN lo
    ELSE LET mid == (lo + hi + 1) \div 2
         IN  IF mid * mid <= x THEN SqrtSearch(x, mid, hi) ELSE SqrtSearch(x, lo, mid - 1)
MathSqrt(x) == IF IsNaN(x) THEN NaN ELSE SqrtSearch(x, 0, 40000)

\* Vector3.length()
VLength(v) == MathSqrt(Add(Add(Mul(v[1], v[1]), Mul(v[2], v[2])), Mul(v[3], v[3])))

-----------------------------------------------------------------------------
(* Sampling                                                                *)

\* maxwellBoltzmannSpeed(temperature), on the four values u1..u4 it draws
maxwellBoltzmannSpeed(temperature, u) ==
    LET z0 == Mul(BoxMullerRadius(u[1]), Cos2Pi(u[2]))
        z1 == Mul(BoxMullerRadius(u[1]), Sin2Pi(u[2]))
        z2 == Mul(BoxMullerRadius(u[3]), Cos2Pi(u[4]))
    IN  Mul(MathSqrt(Add(Add(Mul(z0, z0), Mul(z1, z1)), Mul(z2, z2))), temperature)

\* PHYS_SCALE = 14.43, in hundredths
PHYS_SCALE == 1443
MultiplyPhysScale(v) == VDiv(VScale(v, PHYS_SCALE), 100)

\* speed and direction from six consecutive draws d[at+1..at+6]: four for the
\* speed, then theta, then phi; the vector before PHYS_SCALE
DrawVelocity(d, at, temperature) ==
    LET speed    == maxwellBoltzmannSpeed(temperature,
                        << d[at + 1], d[at + 2], d[at + 3], d[at + 4] >>)
        thetaU   == d[at + 5]
        phiU     == d[at + 6]
        vx == Mul(Mul(speed, SinPhi(phiU)), Cos2Pi(thetaU))
        vy == Mul(Mul(speed, SinPhi(phiU)), Sin2Pi(thetaU))
        vz == Mul(speed, CosPhi(phiU))
    IN  Vec(vx, vy, vz)

-----------------------------------------------------------------------------
(* createShapeChunks                                                       *)

SupportedShapes == { "cube", "sphere", "cone", "cylinder", "ring" }
\* a shape kind no case of the switch names
UnknownShape == "pyramid"
ShapeKinds == SupportedShapes \cup { UnknownShape }

\* loop bounds of the five tilings
cubeDivisions == 6
sphereLatSegments == 6
sphereLonSegments == 12
coneLayers == 10
coneSegments == 6
cylinderLayers == 10
cylinderSegments == 8
ringMajorSegments == 16
ringMinorSegments == 6

\* a tiling that pushes one chunk per iteration of each outer loop only
ChunkCountOuterLoops(shapeType) ==
    CASE shapeType = "cube" -> cubeDivisions * cubeDivisions
      [] shapeType = "sphere" -> sphereLatSegments
      [] shapeType = "cone" -> coneLayers
      [] shapeType = "cylinder" -> cylinderLayers
      [] shapeType = "ring" -> ringMajorSegments
      [] OTHER -> 0

\* number of chunks.push calls the switch makes
ChunkCount(shapeType) ==
    CASE shapeType = "cube" -> cubeDivisions * cubeDivisions * cubeDivisions
      [] shapeType = "sphere" -> sphereLatSegments * sphereLonSegments
      [] shapeType = "cone" -> coneLayers * coneSegments
      [] shapeType = "cylinder" -> cylinderLayers * cylinderSegments
      [] shapeType = "ring" -> ringMajorSegments * ringMinorSegments
      [] OTHER -> 0

\* The leading pieces of each tiling, in push order, from the vertex formulas of
\* the switch: centre (unit 0.1) and bounding-box size (unit 0.01).
pieceTable ==
    [ cube     |-> << << << -33, -33, -33 >>, << 131, 131, 131 >> >>,
                      << << -33, -33, -20 >>, << 131, 131, 131 >> >>,
                      << << -33, -33,  -7 >>, << 131, 131, 131 >> >>,
                      << << -33, -33,   7 >>, << 131, 131, 131 >> >> >>,
      sphere   |-> << << <<   8,  31,   2 >>, << 245, 273, 122 >> >>,
                      << <<   6,  31,   6 >>, << 212, 273, 212 >> >>,
                      << <<   2,  31,   8 >>, << 122, 273, 245 >> >>,
                      << <<  -2,  31,   8 >>, << 122, 273, 245 >> >> >>,
      cone     |-> << << <<  37, -45,  21 >>, << 320, 100, 433 >> >>,
                      << <<   0, -45,  43 >>, << 500, 100, 121 >> >>,
                      << << -37, -45,  21 >>, << 320, 100, 433 >> >>,
                      << << -37, -45, -21 >>, << 320, 100, 433 >> >> >>,
      cylinder |-> << << <<  29, -45,  12 >>, << 222, 100, 277 >> >>,
                      << <<  12, -45,  29 >>, << 277, 100, 222 >> >>,
                      << << -12, -45,  29 >>, << 277, 100, 222 >> >>,
                      << << -29, -45,  12 >>, << 222, 100, 277 >> >> >>,
      ring     |-> << << <<  59,   6,  12 >>, << 146, 130, 249 >> >>,
                      << <<  49,  12,  10 >>, << 182,  52, 220 >> >>,
                      << <<  39,   6,   8 >>, << 132, 130, 174 >> >>,
                      << <<  39,  -6,   8 >>, << 132, 130, 174 >> >> >> ]

Min(a, b) == IF a < b THEN a ELSE b

\* pieces of the tiling the model keeps: its first MaxChunks
TrackedChunks(shapeType) ==
    IF shapeType \in SupportedShapes
    THEN Min(Min(ChunkCount(shapeType), MaxChunks), Len(pieceTable[shapeType]))
    ELSE 0

density == 1

\* calculatedMass = size.x * size.y * size.z * density, in 0.001
CalculatedMass(size) == ((size[1] * size[2] * size[3]) \div 1000) * density

\* createShapeChunks(shapeType): no default case, so an unknown kind falls through
\* the switch and the empty list is returned
createShapeChunks(shapeType) ==
    [ i \in 1..TrackedChunks(shapeType) |->
        LET piece == pieceTable[shapeType][i]
        IN  [ initialPos |-> piece[1],
              mass       |-> CalculatedMass(piece[2]),
              velocity   |-> Zero3,
              position   |-> piece[1],      \* mesh.position
              rotation   |-> << 0, 0 >>,    \* mesh.rotation.x, mesh.rotation.y
              visible    |-> TRUE ] ]       \* mesh.visible

-----------------------------------------------------------------------------
(* Component state                                                         *)

\* the useState initial values: the state of the first render
firstRender ==
    [ selectedShape  |-> "sphere",
      comVelocity    |-> Zero3,
      explosionSpeed |-> 10,
      isExploded     |-> FALSE,
      randomSeed     |-> << 0, 12345 >>,
      useRandomSeed  |-> FALSE,
      enableGas      |-> TRUE,
      frameIsCoM     |-> TRUE,
      timeScale      |-> 1,
      isPlaying      |-> TRUE ]

\* What the functions defined inside the mount effect read when they name a
\* useState value.  The effect's dependency list is [], so it runs once, after
\* the first render, and its closures keep that render's values.
EffectScopeGasOff == [ firstRender EXCEPT !.enableGas = FALSE ]
EffectScope == firstRender

\* explosionChunks
explosionChunks == IF explosionChunksRef = "preCreated" THEN preCreatedChunks ELSE << >>

gasCount == 10000
\* gas particles of a buffer the model keeps: its first MaxGas
TrackedGas == Min(gasCount, MaxGas)

gasParticleMass == 1
maxAge == 25
jitterScale == 5

NoExplosion ==
    [ n |-> 0, config |-> firstRender, shape |-> firstRender.selectedShape,
      frameIsCoM |-> TRUE, comVel |-> Zero3, stream |-> 0,
      totalMass |-> 0, totalSystemMass |-> 0, momentumCorrection |-> Zero3,
      rawVelocities |-> << >>, velocities |-> << >>, masses |-> << >>,
      gasRawVelocities |-> << >>, gasVelocities |-> << >>, gasPositions |-> << >>,
      logUniforms |-> << >>,
      used |-> [ explosionSpeed |-> firstRender.explosionSpeed, enableGas |-> firstRender.enableGas,
                 useRandomSeed |-> firstRender.useRandomSeed, randomSeed |-> firstRender.randomSeed ] ]

\* createObject(shapeType) on the closure state
CreatedChunks(shapeType) ==
    [ i \in 1..Len(createShapeChunks(shapeType)) |->
        [ createShapeChunks(shapeType)[i] EXCEPT !.visible = FALSE ] ]

InitComponent ==
    /\ ui = firstRender
    /\ refs = [ timeScale |-> firstRender.timeScale, isPlaying |-> firstRender.isPlaying ]
    /\ currentObject = [ shape |-> firstRender.selectedShape, visible |-> TRUE ]
    /\ preCreatedChunks = CreatedChunks(firstRender.selectedShape)
    /\ explosionChunksRef = "empty"
    /\ gasParticles = 0
    /\ gasHeap = << >>
    /\ sceneGas = {}
    /\ centerOfMass = Zero3
    /\ comVel = Zero3
    /\ frameIsCoMSetting = firstRender.frameIsCoM
    /\ lastError = "none"
    /\ lastExplosion = NoExplosion
    /\ prevExplosion = NoExplosion
    /\ call = [ via |-> "none", fn |-> "none", args |-> << >>, error |-> "none", result |-> 0 ]
    /\ simTime = 0
    /\ edits = 0

\* let rng = new SeededRandom(randomSeed)
InitRngWith(seed) ==
    /\ rng = NewSeededRandom(seed)
    /\ rngTrace = [ s |-> seed, out |-> << >>, calls |-> 0 ]

\* main.js after module evaluation: `let threeModulePromise;`, nothing imported
LoaderStart ==
    [ threeModulePromise |-> 0, imports |-> << >>, calls |-> << >>, windowTHREE |-> 0 ]

\* main.js when the component is rendered: loadComponent() has awaited its one
\* call of loadThreeModule(), whose import succeeded
LoaderMounted ==
    [ threeModulePromise |-> 1,
      imports |-> << [ imported |-> "fulfilled", thenP |-> "fulfilled", catchP |-> "fulfilled" ] >>,
      calls |-> << [ returned |-> 1, started |-> TRUE, result |-> "fulfilled" ] >>,
      windowTHREE |-> 1 ]

Init == InitComponent /\ InitRngWith(firstRender.randomSeed) /\ loader = LoaderMounted

-----------------------------------------------------------------------------
(* explodeObject                                                           *)

RECURSIVE SumMass(_, _)
SumMass(chunks, n) == IF n = 0 THEN 0 ELSE Add(SumMass(chunks, n - 1), chunks[n].mass)

\* sum of vels[i] * weight(i) for i in 1..n
RECURSIVE WeightedSum(_, _, _)
WeightedSum(vels, weights, n) ==
    IF n = 0 THEN Zero3
    ELSE VAdd(WeightedSum(vels, weights, n - 1), VScale(vels[n], weights[n]))

Masses(chunks) == [ i \in 1..Len(chunks) |-> chunks[i].mass ]
GasMasses(n) == [ i \in 1..n |-> gasParticleMass ]

\* totalMomentum: chunk contribution, then gas contribution
TotalMomentum(chunks, chunkVelocities, gasVelocities) ==
    VAdd(WeightedSum(chunkVelocities, Masses(chunks), Len(chunks)),
         WeightedSum(gasVelocities, GasMasses(Len(gasVelocities)), Len(gasVelocities)))

\* totalSystemMass = totalMass + gasCount * gasParticleMass
TotalSystemMass(totalMass, count) == Add(totalMass, count * gasParticleMass)

\* targetMomentum
TargetMomentum(isCoM, vel, totalSystemMass) ==
    IF isCoM THEN Zero3 ELSE VScale(vel, totalSystemMass)

\* momentumCorrection = targetMomentum.sub(totalMomentum).divideScalar(totalSystemMass)
MomentumCorrection(targetMomentum, totalMomentum, totalSystemMass) ==
    VDiv(VSub(targetMomentum, totalMomentum), totalSystemMass)

\* one gas particle from twelve consecutive draws d[at+1..at+12]: spawn index,
\* three jitters, two colour rolls, then the six draws of its velocity
GasParticle(d, at, chunks, gasTemperature) ==
    LET randomChunkIdx == FloorScaled(d[at + 1], Len(chunks))
        chunkPos == chunks[randomChunkIdx + 1].initialPos
        Jitter(u) == (FloorScaled(u, 2 * jitterScale) - jitterScale) \div 2
        temp == d[at + 5]
        brightnessRoll == d[at + 6]
        band == IF LessThanTenths(temp, 3) THEN 1 ELSE IF LessThanTenths(temp, 6) THEN 2 ELSE 3
    IN  [ position |-> Vec(chunkPos[1] + Jitter(d[at + 2]),
                           chunkPos[2] + Jitter(d[at + 3]),
                           chunkPos[3] + Jitter(d[at + 4])),
          color    |-> << band, Quarter(brightnessRoll) >>,
          velocity |-> DrawVelocity(d, at + 6, gasTemperature) ]

\* chunkVelocities after the PHYS_SCALE loop: one velocity per chunk, in push order
RECURSIVE ChunkVelocities(_, _, _)
ChunkVelocities(d, n, temperature) ==
    IF n = 0 THEN << >>
    ELSE Append(ChunkVelocities(d, n - 1, temperature),
                MultiplyPhysScale(DrawVelocity(d, 6 * (n - 1), temperature)))

\* the gas loop: particle j reads the twelve draws after the 6 * n of the chunks
RECURSIVE GasParticles(_, _, _, _, _)
GasParticles(d, n, count, chunks, gasTemperature) ==
    IF count = 0 THEN << >>
    ELSE Append(GasParticles(d, n, count - 1, chunks, gasTemperature),
                GasParticle(d, 6 * n + 12 * (count - 1), chunks, gasTemperature))

\* the values the sampler takes the logarithm of, in the order of the calls of
\* maxwellBoltzmannSpeed: u1 and u3 of each chunk, then u1 and u3 of each gas particle
LogUniforms(d, n, count) ==
    [ k \in 1..(2 * n + 2 * count) |->
        LET which == IF k % 2 = 1 THEN 1 ELSE 3
        IN  IF k <= 2 * n
            THEN d[6 * ((k - 1) \div 2) + which]
            ELSE d[6 * n + 12 * ((k - 2 * n - 1) \div 2) + 6 + which] ]

\* The outcome of explodeObject() past its guard, with Math.random() in run k:
\* "thrown" when the gas loop reads explosionChunks[0].initialPos of an empty list.
Explosion(scope, k) ==
    LET seed0  == IF scope.useRandomSeed THEN SeededRandomReset(scope.randomSeed) ELSE rng
        chunks == [ i \in 1..Len(preCreatedChunks) |->
                      [ preCreatedChunks[i] EXCEPT !.position = preCreatedChunks[i].initialPos,
                                                   !.rotation = << 0, 0 >>,
                                                   !.visible = TRUE ] ]
        n == Len(chunks)
        totalMass == SumMass(chunks, n)
        temperature == scope.explosionSpeed
        count == IF scope.enableGas THEN TrackedGas ELSE 0
        gasTemperature == temperature * 2
    IN  IF count > 0 /\ n = 0
        THEN [ thrown |-> TRUE, chunks |-> chunks, seed |-> RngAfter(scope.useRandomSeed, seed0, 1),
               drawn |-> IF scope.useRandomSeed THEN SeededDraws(seed0, 1) ELSE << >> ]
        ELSE
        LET d == Draws(scope.useRandomSeed, seed0, k, 6 * n + 12 * count)
            chunkVelocities == ChunkVelocities(d, n, temperature)
            gas == GasParticles(d, n, count, chunks, gasTemperature)
            gasVelocities == [ j \in 1..count |-> MultiplyPhysScale(gas[j].velocity) ]
            totalMomentum == TotalMomentum(chunks, chunkVelocities, gasVelocities)
            totalSystemMass == TotalSystemMass(totalMass, count)
            targetMomentum == TargetMomentum(frameIsCoMSetting, comVel, totalSystemMass)
            momentumCorrection == MomentumCorrection(targetMomentum, totalMomentum, totalSystemMass)
        IN  [ thrown |-> FALSE,
              seed |-> RngAfter(scope.useRandomSeed, seed0, 6 * n + 12 * count),
              drawn |-> IF scope.useRandomSeed THEN d ELSE << >>,
              chunks |-> [ i \in 1..n |->
                             [ chunks[i] EXCEPT !.velocity = VAdd(chunkVelocities[i], momentumCorrection) ] ],
              hasGas |-> scope.enableGas,
              gas |-> [ count      |-> gasCount,
                        positions  |-> [ j \in 1..count |-> gas[j].position ],
                        colors     |-> [ j \in 1..count |-> gas[j].color ],
                        velocities |-> [ j \in 1..count |-> VAdd(gasVelocities[j], momentumCorrection) ],
                        age |-> 0, maxAge |-> maxAge, opacity |-> 100, size |-> 4500,
                        disposed |-> FALSE, elapsed |-> 0, interrupted |-> FALSE ],
              totalMass |-> totalMass,
              totalSystemMass |-> totalSystemMass,
              momentumCorrection |-> momentumCorrection,
              rawVelocities |-> chunkVelocities,
              gasRawVelocities |-> gasVelocities,
              logUniforms |-> LogUniforms(d, n, count),
              used |-> [ explosionSpeed |-> temperature, enableGas |-> scope.enableGas,
                         useRandomSeed |-> scope.useRandomSeed, randomSeed |-> scope.randomSeed ] ]

\* window.simulatorControls.explode = handleExplode -> explodeObject()
HandleExplode(k) ==
    /\ lastExplosion.n < MaxExplosions
    /\ UNCHANGED << loader, refs, centerOfMass, comVel, frameIsCoMSetting, call, simTime, edits >>
    /\ IF EffectScope.isExploded
       THEN \* the guard returns
            /\ lastError' = "none"
            /\ UNCHANGED << ui, currentObject, preCreatedChunks, explosionChunksRef, gasParticles,
                            gasHeap, sceneGas, rng, rngTrace, lastExplosion, prevExplosion >>
       ELSE LET e == Explosion(EffectScope, k) IN
            /\ currentObject' = [ currentObject EXCEPT !.visible = FALSE ]
            /\ explosionChunksRef' = "preCreated"
            /\ preCreatedChunks' = e.chunks
            /\ rng' = e.seed
            /\ rngTrace' = IF EffectScope.useRandomSeed
                           THEN [ s |-> EffectScope.randomSeed, out |-> e.drawn,
                                  calls |-> rngTrace.calls + Len(e.drawn) ]
                           ELSE [ rngTrace EXCEPT !.calls = rngTrace.calls + Len(e.drawn) ]
            /\ IF e.thrown
               THEN /\ lastError' = "TypeError"
                    /\ UNCHANGED << ui, gasParticles, gasHeap, sceneGas, lastExplosion, prevExplosion >>
               ELSE /\ lastError' = "none"
                    /\ ui' = [ ui EXCEPT !.isExploded = TRUE ]
                    /\ IF e.hasGas
                       THEN /\ gasHeap' = Append(gasHeap, e.gas)
                            /\ gasParticles' = Len(gasHeap) + 1
                            /\ sceneGas' = sceneGas \cup { Len(gasHeap) + 1 }
                       ELSE UNCHANGED << gasParticles, gasHeap, sceneGas >>
                    /\ prevExplosion' = lastExplosion
                    /\ lastExplosion' =
                         [ n |-> lastExplosion.n + 1,
                           config |-> [ ui EXCEPT !.isExploded = FALSE ],
                           frameIsCoM |-> frameIsCoMSetting,
                           comVel |-> comVel,
                           shape |-> currentObject.shape,
                           stream |-> k,
                           totalMass |-> e.totalMass,
                           totalSystemMass |-> e.totalSystemMass,
                           momentumCorrection |-> e.momentumCorrection,
                           rawVelocities |-> e.rawVelocities,
                           velocities |-> [ i \in 1..Len(e.chunks) |-> e.chunks[i].velocity ],
                           masses |-> Masses(e.chunks),
                           gasRawVelocities |-> e.gasRawVelocities,
                           logUniforms |-> e.logUniforms,
                           used |-> e.used,
                           gasVelocities |-> e.gas.velocities,
                           gasPositions |-> e.gas.positions ]

-----------------------------------------------------------------------------
(* animate: one frame                                                      *)

\* raw frame deltas clock.getDelta() returns in the model, in 0.1 s
rawDeltas == { 10, 15 }

\* a chunk update that also wears the chunk down
StepChunkSheddingMass(chunk, simulationDelta) ==
    [ chunk EXCEPT !.position = VAdd(chunk.position, VScale(chunk.velocity, simulationDelta)),
                   !.mass = chunk.mass - 1 ]

\* a chunk update that also slows the chunk down
StepChunkWithDrag(chunk, simulationDelta) ==
    [ chunk EXCEPT !.position = VAdd(chunk.position, VScale(chunk.velocity, simulationDelta)),
                   !.velocity = VDiv(chunk.velocity, 2) ]

\* chunk update of one frame
StepChunk(chunk, simulationDelta) ==
    LET turn == Mul(VLength(chunk.velocity), simulationDelta)
    IN  [ chunk EXCEPT
            !.position = VAdd(chunk.position, VScale(chunk.velocity, simulationDelta)),
            !.rotation = << Add(chunk.rotation[1], turn),
                            Add(chunk.rotation[2], Div(Mul(turn, 15), 10)) >> ]

\* gasProgress = age / maxAge, in hundredths
GasProgress(age, max) == Div(Mul(age, 100), max)

\* a gas update that also slows the particles down
StepGasWithDrag(g, simulationDelta) ==
    [ g EXCEPT !.age = Add(g.age, simulationDelta),
               !.velocities = [ j \in 1..Len(g.velocities) |-> VDiv(g.velocities[j], 2) ] ]

\* a gas update that moves the particles at the scale of the chunks
StepGasAtChunkScale(g, simulationDelta) ==
    [ g EXCEPT !.age = Add(g.age, simulationDelta),
               !.positions = [ j \in 1..Len(g.positions) |->
                                 VAdd(g.positions[j], VScale(g.velocities[j], simulationDelta)) ] ]

\* gas update of one frame, before the removal test
StepGas(g, simulationDelta) ==
    LET age == Add(g.age, simulationDelta)
        gasProgress == GasProgress(age, g.maxAge)
    IN  [ g EXCEPT
            !.age = age,
            !.positions = [ j \in 1..Len(g.positions) |->
                              VAdd(g.positions[j], VScale(VScale(g.velocities[j], simulationDelta), 10)) ],
            !.opacity = MathMax(0, Sub(100, gasProgress)),
            !.size = Mul(45, Add(100, Mul(gasProgress, 2))) ]

\* the removal test: gasProgress >= 1
GasFaded(g) == Geq(GasProgress(g.age, g.maxAge), 100)

\* centerOfMass of the frame: from the positions before the chunk update
FrameCenterOfMass(chunks) ==
    VDiv(WeightedSum([ i \in 1..Len(chunks) |-> chunks[i].position ], Masses(chunks), Len(chunks)),
         SumMass(chunks, Len(chunks)))

Animate(rawDelta) ==
    /\ LET c == CallImported("computeSimulationDelta", << rawDelta, refs.timeScale, refs.isPlaying >>)
           simulationDelta == c.result
           \* lerpDelta, the step of the camera smoothing, is r.result
           r == CallImported("resolveTimeStep", << refs.isPlaying, simulationDelta, rawDelta >>)
           aged == [ i \in 1..Len(gasHeap) |->
                       [ gasHeap[i] EXCEPT !.elapsed = Add(gasHeap[i].elapsed, simulationDelta) ] ]
       IN  IF c.error # "none" \/ r.error # "none"
           THEN /\ lastError' = (IF c.error # "none" THEN c.error ELSE r.error)
                /\ call' = [ (IF c.error # "none" THEN c ELSE r) EXCEPT !.via = "component" ]
                /\ UNCHANGED << preCreatedChunks, gasHeap, gasParticles, sceneGas, centerOfMass,
                                simTime >>
           ELSE
           /\ simTime + simulationDelta <= MaxTime
           /\ simTime' = simTime + simulationDelta
           /\ lastError' = "none"
           /\ call' = [ r EXCEPT !.via = "component" ]
           /\ IF Len(explosionChunks) > 0
              THEN /\ centerOfMass' = FrameCenterOfMass(explosionChunks)
                   /\ preCreatedChunks' =
                        [ i \in 1..Len(preCreatedChunks) |-> StepChunk(preCreatedChunks[i], simulationDelta) ]
                   /\ IF gasParticles # 0
                      THEN LET g == StepGas(aged[gasParticles], simulationDelta) IN
                           IF GasFaded(g)
                           THEN /\ gasHeap' = [ aged EXCEPT ![gasParticles] = [ g EXCEPT !.disposed = TRUE ] ]
                                /\ sceneGas' = sceneGas \ { gasParticles }
                                /\ gasParticles' = 0
                           ELSE /\ gasHeap' = [ aged EXCEPT ![gasParticles] = g ]
                                /\ UNCHANGED << sceneGas, gasParticles >>
                      ELSE /\ gasHeap' = aged
                           /\ UNCHANGED << sceneGas, gasParticles >>
              ELSE /\ centerOfMass' = Zero3
                   /\ gasHeap' = aged
                   /\ UNCHANGED << preCreatedChunks, sceneGas, gasParticles >>
    /\ UNCHANGED << loader, ui, refs, currentObject, explosionChunksRef, comVel, frameIsCoMSetting, rng,
                    rngTrace, lastExplosion, prevExplosion, edits >>

-----------------------------------------------------------------------------
(* Handlers                                                                *)

Interrupt(heap) == [ i \in 1..Len(heap) |-> [ heap[i] EXCEPT !.interrupted = TRUE ] ]

\* window.simulatorControls.reset = handleReset
HandleReset ==
    /\ currentObject' = [ currentObject EXCEPT !.visible = TRUE ]
    /\ preCreatedChunks' =
         [ i \in 1..Len(preCreatedChunks) |->
             [ preCreatedChunks[i] EXCEPT !.position = preCreatedChunks[i].initialPos,
                                          !.rotation = << 0, 0 >>,
                                          !.visible = FALSE ] ]
    /\ explosionChunksRef' = "empty"
    /\ IF gasParticles # 0
       THEN /\ sceneGas' = sceneGas \ { gasParticles }
            /\ gasHeap' = [ Interrupt(gasHeap) EXCEPT ![gasParticles].disposed = TRUE ]
            /\ gasParticles' = 0
       ELSE /\ gasHeap' = Interrupt(gasHeap)
            /\ UNCHANGED << sceneGas, gasParticles >>
    /\ centerOfMass' = Zero3
    /\ ui' = [ ui EXCEPT !.isExploded = FALSE ]
    /\ lastError' = "none"
    /\ UNCHANGED << loader, refs, comVel, frameIsCoMSetting, rng, rngTrace, lastExplosion, prevExplosion,
                    call, simTime, edits >>

\* createObject(shape), then centerOfMass.set(0, 0, 0): the handleShapeChange of the
\* mount effect; `selected` is the value of the React state selectedShape afterwards
ChangeShape(shape, selected) ==
    /\ edits < MaxEdits
    /\ edits' = edits + 1
    /\ currentObject' = [ shape |-> shape, visible |-> TRUE ]
    /\ explosionChunksRef' = "empty"
    /\ preCreatedChunks' = CreatedChunks(shape)
    /\ IF gasParticles # 0
       THEN /\ sceneGas' = sceneGas \ { gasParticles }
            /\ gasParticles' = 0
       ELSE UNCHANGED << sceneGas, gasParticles >>
    /\ gasHeap' = Interrupt(gasHeap)
    /\ centerOfMass' = Zero3
    /\ ui' = [ ui EXCEPT !.isExploded = FALSE, !.selectedShape = selected ]
    /\ lastError' = "none"
    /\ UNCHANGED << loader, refs, comVel, frameIsCoMSetting, rng, rngTrace, lastExplosion, prevExplosion,
                    call, simTime >>

\* window.simulatorControls.changeShape(shape): the handleShapeChange of the mount
\* effect called on its own, with any value; selectedShape is not written
HandleShapeChange(shape) ==
    /\ shape \in ShapeKinds
    /\ ChangeShape(shape, ui.selectedShape)

\* a shape button: the handleShapeChange of the component, setSelectedShape(shape)
\* and then window.simulatorControls.changeShape(shape)
SelectShape(shape) ==
    /\ shape \in SupportedShapes
    /\ ChangeShape(shape, shape)

\* values the controls are set to in the model
speedChoices == { 5, 10 }
seedChoices == { << 0, 12345 >>, << 9686, 4069 >> }
comVelocityChoices == { 0, 100 }
\* vectors window.simulatorControls.updateVelocity is called with in the model
velocityArguments == { Vec(0, 0, 0), Vec(100, 0, 0), Vec(0, 50, 0) }
timeScaleChoices == { 0, 2 }

Edit ==
    /\ edits < MaxEdits
    /\ edits' = edits + 1
    /\ lastError' = "none"
    /\ UNCHANGED << loader, currentObject, preCreatedChunks, explosionChunksRef, gasParticles, gasHeap,
                    sceneGas, centerOfMass, rng, rngTrace, lastExplosion, prevExplosion, call,
                    simTime >>

\* Blast Intensity slider
SetExplosionSpeed(v) ==
    /\ Edit /\ v # ui.explosionSpeed
    /\ ui' = [ ui EXCEPT !.explosionSpeed = v ]
    /\ UNCHANGED << refs, comVel, frameIsCoMSetting >>

\* Reproducible Explosions checkbox
SetUseRandomSeed(b) ==
    /\ Edit /\ b # ui.useRandomSeed
    /\ ui' = [ ui EXCEPT !.useRandomSeed = b ]
    /\ UNCHANGED << refs, comVel, frameIsCoMSetting >>

\* Random Seed input: rendered only inside {useRandomSeed && ...}, so it can be
\* used only once the Reproducible Explosions box is ticked; ticking the box is a
\* control change itself, and the input may be changed once after it
SetRandomSeed(seed) ==
    /\ ui.useRandomSeed
    /\ edits <= MaxEdits
    /\ edits' = edits + 1
    /\ seed # ui.randomSeed
    /\ ui' = [ ui EXCEPT !.randomSeed = seed ]
    /\ lastError' = "none"
    /\ UNCHANGED << loader, currentObject, preCreatedChunks, explosionChunksRef, gasParticles, gasHeap,
                    sceneGas, centerOfMass, rng, rngTrace, lastExplosion, prevExplosion, call,
                    simTime, refs, comVel, frameIsCoMSetting >>

\* Gas Escape checkbox
SetEnableGas(b) ==
    /\ Edit /\ b # ui.enableGas
    /\ ui' = [ ui EXCEPT !.enableGas = b ]
    /\ UNCHANGED << refs, comVel, frameIsCoMSetting >>

\* CoM Reference Frame checkbox; the [frameIsCoM] effect calls setCameraLock
SetFrameIsCoM(b) ==
    /\ Edit /\ b # ui.frameIsCoM
    /\ ui' = [ ui EXCEPT !.frameIsCoM = b ]
    /\ frameIsCoMSetting' = b
    /\ UNCHANGED << refs, comVel >>

\* CoM Velocity controls: every setComVelocity({x, y: 0, z: 0}) stores a new
\* object, so the [comVelocity] effect runs and calls updateVelocity(x, 0, 0)
\* also when the value is the one already shown
SetComVelocity(x) ==
    /\ Edit
    /\ ui' = [ ui EXCEPT !.comVelocity = Vec(x, 0, 0) ]
    /\ comVel' = Vec(x, 0, 0)
    /\ UNCHANGED << refs, frameIsCoMSetting >>

\* window.simulatorControls.setCameraLock(shouldLock) called on its own:
\* handleCameraLockChange writes the closure variable, not the React state
HandleCameraLockChange(shouldLock) ==
    /\ Edit /\ shouldLock # frameIsCoMSetting
    /\ frameIsCoMSetting' = shouldLock
    /\ UNCHANGED << ui, refs, comVel >>

\* window.simulatorControls.updateVelocity(x, y, z) called on its own:
\* handleVelocityChange writes comVel, not the React state
HandleVelocityChange(v) ==
    /\ Edit /\ v # comVel
    /\ comVel' = v
    /\ UNCHANGED << ui, refs, frameIsCoMSetting >>

\* window.simulatorControls.resetCoM() called on its own: comVel.set(0, 0, 0)
HandleResetCoM ==
    /\ Edit
    /\ comVel' = Zero3
    /\ UNCHANGED << ui, refs, frameIsCoMSetting >>

TogglePlayback ==
    /\ Edit
    /\ ui' = [ ui EXCEPT !.isPlaying = ~ui.isPlaying ]
    /\ refs' = [ refs EXCEPT !.isPlaying = ~ui.isPlaying ]
    /\ UNCHANGED << comVel, frameIsCoMSetting >>

\* applyTimeScale(value): the call of clampTimeScale throws when the binding is undefined
ApplyTimeScale(value) ==
    /\ edits < MaxEdits
    /\ edits' = edits + 1
    /\ LET c == CallImported("clampTimeScale", << value >>) IN
       /\ lastError' = c.error
       /\ call' = [ c EXCEPT !.via = "component" ]
       /\ IF c.error = "none"
          THEN /\ refs' = [ refs EXCEPT !.timeScale = c.result ]
               /\ ui' = [ ui EXCEPT !.timeScale = c.result ]
          ELSE UNCHANGED << ui, refs >>
    /\ UNCHANGED << loader, currentObject, preCreatedChunks, explosionChunksRef, gasParticles, gasHeap,
                    sceneGas, centerOfMass, comVel, frameIsCoMSetting, rng, rngTrace,
                    lastExplosion, prevExplosion, simTime >>

Next ==
    \/ \E k \in 1..NumStreams : HandleExplode(k)
    \/ \E rawDelta \in rawDeltas : Animate(rawDelta)
    \/ HandleReset
    \/ \E shape \in ShapeKinds : HandleShapeChange(shape)
    \/ \E shape \in SupportedShapes : SelectShape(shape)
    \/ \E v \in speedChoices : SetExplosionSpeed(v)
    \/ \E b \in BOOLEAN : SetUseRandomSeed(b)
    \/ \E seed \in seedChoices : SetRandomSeed(seed)
    \/ \E b \in BOOLEAN : SetEnableGas(b)
    \/ \E b \in BOOLEAN : SetFrameIsCoM(b)
    \/ \E x \in comVelocityChoices : SetComVelocity(x)
    \/ \E b \in BOOLEAN : HandleCameraLockChange(b)
    \/ \E v \in velocityArguments : HandleVelocityChange(v)
    \/ HandleResetCoM
    \/ TogglePlayback
    \/ \E value \in timeScaleChoices : ApplyTimeScale(value)

Spec == Init /\ [][Next]_vars

-----------------------------------------------------------------------------
(* The functions of simulation-utils.js on their own                       *)

MaxArg == 2
Numbers == (-MaxArg .. MaxArg) \cup { NaN }

ArgTuples(name) ==
    CASE name = "clampTimeScale" -> { << x >> : x \in Numbers }
      [] name = "computeSimulationDelta" -> Numbers \X Numbers \X BOOLEAN
      [] name = "resolveTimeStep" -> BOOLEAN \X Numbers \X Numbers

\* a function of the file applied inside the file
ApplyDefinition(name, args) ==
    /\ call' = [ via |-> "definition", fn |-> name, args |-> args, error |-> "none",
                 result |-> Apply(name, args) ]
    /\ UNCHANGED simVars

\* a function called through the binding the test file imports
CallFromTest(name, args) ==
    /\ call' = [ CallImported(name, args) EXCEPT !.via = "test" ]
    /\ UNCHANGED simVars

\* a function called through the binding the component imports
CallFromComponent(name, args) ==
    /\ call' = [ CallImported(name, args) EXCEPT !.via = "component" ]
    /\ UNCHANGED simVars

NextUtils ==
    \/ \E name \in { "clampTimeScale", "computeSimulationDelta", "resolveTimeStep" } :
         \E args \in ArgTuples(name) : ApplyDefinition(name, args)
    \/ \E name \in testImports : \E args \in ArgTuples(name) : CallFromTest(name, args)
    \/ \E name \in componentImports : \E args \in ArgTuples(name) : CallFromComponent(name, args)

SpecUtils == Init /\ [][NextUtils]_vars

-----------------------------------------------------------------------------
(* The class SeededRandom on its own                                       *)

MaxDraws == 5
\* seeds an instance is constructed or reset with: integers of [0, 2^32), the
\* ends of the range, the default 12345 and 634785765 among them
rngSeeds == { << 0, 0 >>, << 0, 1 >>, << 0, 12345 >>, << 9686, 4069 >>, << 32768, 0 >>,
              << 65535, 65535 >> }

\* rng.next()
RngNext ==
    /\ rngTrace.calls < MaxDraws
    /\ rng' = SeededRandomNext(rng)
    /\ rngTrace' = [ rngTrace EXCEPT !.out = Append(rngTrace.out, rng'),
                                     !.calls = rngTrace.calls + 1 ]
    /\ UNCHANGED << loader, ui, refs, currentObject, preCreatedChunks, explosionChunksRef, gasParticles,
                    gasHeap, sceneGas, centerOfMass, comVel, frameIsCoMSetting, lastError,
                    lastExplosion, prevExplosion, call, simTime, edits >>

\* rng.reset(seed)
RngReset(seed) ==
    /\ rng' = SeededRandomReset(seed)
    /\ rngTrace' = [ rngTrace EXCEPT !.s = seed, !.out = << >> ]
    /\ UNCHANGED << loader, ui, refs, currentObject, preCreatedChunks, explosionChunksRef, gasParticles,
                    gasHeap, sceneGas, centerOfMass, comVel, frameIsCoMSetting, lastError,
                    lastExplosion, prevExplosion, call, simTime, edits >>

InitRng == InitComponent /\ (\E seed \in rngSeeds : InitRngWith(seed)) /\ loader = LoaderMounted

NextRng ==
    \/ RngNext
    \/ \E seed \in rngSeeds : RngReset(seed)

SpecRng == InitRng /\ [][NextRng]_vars

-----------------------------------------------------------------------------
(* loadThreeModule of main.js on its own                                   *)
(* Import i is the chain import(url).then(...).catch(...): `imported` is   *)
(* the promise of import(), thenP the promise of .then, catchP the promise *)
(* of .catch, which is the value assigned to threeModulePromise; the cached *)
(* promise is named by the number i of its import, 0 is undefined.         *)
(* A call of the async function returns a promise of its own, resolved    *)
(* with the promise of its return statement.                               *)

MaxImports == 3
MaxCalls == 3

mountVars == << ui, refs, currentObject, preCreatedChunks, explosionChunksRef, gasParticles,
                gasHeap, sceneGas, centerOfMass, comVel, frameIsCoMSetting, rng, rngTrace,
                lastError, lastExplosion, prevExplosion, call, simTime, edits >>

\* `if (!threeModulePromise)`
NeedsImport(cached) == cached = 0

\* a rejection handler that leaves the rejected promise cached
CatchHandlerKeeping(cached) == cached

\* `.catch((error) => { threeModulePromise = undefined; throw error; })`: the
\* value of threeModulePromise after the handler
CatchHandler(cached) == 0

\* one call of loadThreeModule()
LoadThreeModule ==
    /\ Len(loader.calls) < MaxCalls
    /\ IF NeedsImport(loader.threeModulePromise)
       THEN /\ Len(loader.imports) < MaxImports
            /\ loader' =
                 [ loader EXCEPT
                     !.imports = Append(@, [ imported |-> "pending", thenP |-> "pending",
                                             catchP |-> "pending" ]),
                     !.threeModulePromise = Len(loader.imports) + 1,
                     !.calls = Append(@, [ returned |-> Len(loader.imports) + 1,
                                           started |-> TRUE, result |-> "pending" ]) ]
       ELSE loader' =
              [ loader EXCEPT
                  !.calls = Append(@, [ returned |-> loader.threeModulePromise,
                                        started |-> FALSE, result |-> "pending" ]) ]
    /\ UNCHANGED mountVars

\* the engine settles import(url): the module is loaded, or the fetch fails
ImportSettles(i, outcome) ==
    /\ i \in 1..Len(loader.imports)
    /\ loader.imports[i].imported = "pending"
    /\ loader' = [ loader EXCEPT !.imports[i].imported = outcome ]
    /\ UNCHANGED mountVars

\* the reaction of .then: the handler builds the namespace and sets window.THREE;
\* a rejection passes through
ThenReaction(i) ==
    /\ i \in 1..Len(loader.imports)
    /\ loader.imports[i].imported # "pending"
    /\ loader.imports[i].thenP = "pending"
    /\ loader' = [ loader EXCEPT
                     !.imports[i].thenP = loader.imports[i].imported,
                     !.windowTHREE = IF loader.imports[i].imported = "fulfilled" THEN i ELSE @ ]
    /\ UNCHANGED mountVars

\* the reaction of .catch: a fulfilment passes through, a rejection runs the handler
CatchReaction(i) ==
    /\ i \in 1..Len(loader.imports)
    /\ loader.imports[i].thenP # "pending"
    /\ loader.imports[i].catchP = "pending"
    /\ loader' = [ loader EXCEPT
                     !.imports[i].catchP = loader.imports[i].thenP,
                     !.threeModulePromise =
                        IF loader.imports[i].thenP = "rejected" THEN CatchHandler(@) ELSE @ ]
    /\ UNCHANGED mountVars

\* the promise a call returned follows the promise of its return statement
CallSettles(c) ==
    /\ c \in 1..Len(loader.calls)
    /\ loader.calls[c].result = "pending"
    /\ loader.imports[loader.calls[c].returned].catchP # "pending"
    /\ loader' = [ loader EXCEPT
                     !.calls[c].result = loader.imports[loader.calls[c].returned].catchP ]
    /\ UNCHANGED mountVars

InitLoader == InitComponent /\ InitRngWith(firstRender.randomSeed) /\ loader = LoaderStart

NextLoader ==
    \/ LoadThreeModule
    \/ \E i \in 1..MaxImports : \E outcome \in { "fulfilled", "rejected" } : ImportSettles(i, outcome)
    \/ \E i \in 1..MaxImports : ThenReaction(i)
    \/ \E i \in 1..MaxImports : CatchReaction(i)
    \/ \E c \in 1..MaxCalls : CallSettles(c)

SpecLoader == InitLoader /\ [][NextLoader]_vars

-----------------------------------------------------------------------------
(* Properties of an explosion                                              *)

\* total momentum carried by an explosion record: the fragments, then the gas
ExplosionMomentum(ex) ==
    VAdd(WeightedSum(ex.velocities, ex.masses, Len(ex.velocities)),
         WeightedSum(ex.gasVelocities, GasMasses(Len(ex.gasVelocities)), Len(ex.gasVelocities)))

\* p equals target on each axis, up to the rounding of one division by mass
WithinRounding(p, target, mass) ==
    \A axis \in 1..3 :
        /\ p[axis] # NaN /\ target[axis] # NaN
        /\ target[axis] - p[axis] >= 0
        /\ target[axis] - p[axis] < mass

\* C1: after an explosion triggered with the CoM frame selected, the total
\* momentum over fragments and gas particles is zero on each axis, within
\* tolerance, whatever the draws were.
MomentumZeroInCoMFrame ==
    (lastExplosion.n > 0 /\ lastExplosion.frameIsCoM)
        => WithinRounding(ExplosionMomentum(lastExplosion), Zero3, lastExplosion.totalSystemMass)

\* C2: after an explosion triggered with the Lab frame selected, the total
\* momentum over fragments and gas particles equals the target velocity times
\* the total system mass.
MomentumBoostedInLabFrame ==
    (lastExplosion.n > 0 /\ ~lastExplosion.frameIsCoM)
        => WithinRounding(ExplosionMomentum(lastExplosion),
                          VScale(lastExplosion.comVel, lastExplosion.totalSystemMass),
                          lastExplosion.totalSystemMass)

\* C3: in seeded mode two explosions with the same seed and identical
\* configuration (the second possibly after a reset) have identical fragment
\* velocities and identical gas positions and velocities.
SeededExplosionsRepeat ==
    (/\ prevExplosion.n > 0
     /\ lastExplosion.config.useRandomSeed
     /\ prevExplosion.config = lastExplosion.config)
        => /\ lastExplosion.velocities = prevExplosion.velocities
           /\ lastExplosion.gasPositions = prevExplosion.gasPositions
           /\ lastExplosion.gasVelocities = prevExplosion.gasVelocities

\* C4: a call of explode while the simulation is exploded is a no-op: no
\* explosion is carried out, so the fragments, the gas buffer, the RNG state
\* and the exploded flag stay as they are.
ExplodeWhileExplodedIsNoOp ==
    [][ (ui.isExploded /\ lastExplosion'.n # lastExplosion.n)
          => UNCHANGED << preCreatedChunks, gasHeap, gasParticles, sceneGas, rng, ui >> ]_vars

\* C5: a gas buffer no reset or shape change has interrupted is present while
\* the simulated time stepped since its explosion is below maxAge, and from the
\* tick at which that time reaches maxAge it is destroyed, with opacity 0.
GasLifecycle ==
    \A i \in 1..Len(gasHeap) :
        ~gasHeap[i].interrupted =>
            IF gasHeap[i].elapsed < gasHeap[i].maxAge
            THEN i \in sceneGas /\ ~gasHeap[i].disposed
            ELSE i \notin sceneGas /\ gasHeap[i].disposed /\ gasHeap[i].opacity = 0

\* C6: the decomposition of an unknown shape kind is refused with an error; the
\* simulator never holds an empty fragment list made for such a kind.
UnknownShapeNeverDecomposed ==
    ~(currentObject.shape \notin SupportedShapes /\ Len(preCreatedChunks) = 0)

\* C7: no velocity and no centre of mass is computed by dividing by a zero
\* mass: every momentum correction carried out divided by a positive total
\* system mass, over fragments of positive total mass, and the fragments the
\* next frame averages over have positive total mass.
NoDivisionByZeroMass ==
    /\ lastExplosion.n > 0 => (lastExplosion.totalMass > 0 /\ lastExplosion.totalSystemMass > 0)
    /\ Len(explosionChunks) > 0 => SumMass(explosionChunks, Len(explosionChunks)) > 0

\* C7, its case: explode was called on the empty fragment list of an unknown
\* kind and was abandoned at the gas loop, before the correction
ZeroMassExplosionAbandoned ==
    /\ currentObject.shape \notin SupportedShapes
    /\ explosionChunksRef = "preCreated" /\ Len(preCreatedChunks) = 0
    /\ ~currentObject.visible
    /\ lastError = "TypeError"
    /\ lastExplosion.n = 0

-----------------------------------------------------------------------------
(* Properties of simulation-utils.js                                       *)

\* C8: every function a consumer imports from simulation-utils.js is exported
\* by it, so no call through the module, from the test file or from the
\* component, fails on an undefined name.
ImportedNamesAreDefined ==
    call.via \in { "test", "component" } => call.error = "none"

\* C9: clampTimeScale(x) is 0 when x is NaN, 0 when x is negative, and x when
\* x >= 0.
ClampTimeScaleContract ==
    (call.fn = "clampTimeScale" /\ call.error = "none")
        => call.result = (IF call.args[1] = NaN THEN 0
                          ELSE IF call.args[1] < 0 THEN 0 ELSE call.args[1])

\* C9, its case: clampTimeScale was applied to NaN
ClampTimeScaleOfNaN ==
    call.fn = "clampTimeScale" /\ call.error = "none" /\ call.args = << NaN >> /\ call.result = 0

\* C10: computeSimulationDelta(rawDelta, timeScale, isPlaying) is 0 when not
\* playing, otherwise max(0, rawDelta) * clampTimeScale(timeScale); in
\* particular it is 0 for a negative time scale while playing.
SimulationDeltaContract ==
    (call.fn = "computeSimulationDelta" /\ call.error = "none")
        => LET rawDelta  == call.args[1]
               timeScale == call.args[2]
               isPlaying == call.args[3]
               clamped   == IF timeScale = NaN \/ timeScale < 0 THEN 0 ELSE timeScale
           IN  /\ ~isPlaying => call.result = 0
               /\ isPlaying => call.result = Mul(MathMax(0, rawDelta), clamped)
               /\ (isPlaying /\ timeScale # NaN /\ timeScale < 0) => call.result = 0

\* C11: resolveTimeStep(isPlaying, simulationDelta, rawDelta) is simulationDelta
\* when playing and max(0, rawDelta) when paused, so the step of the camera
\* smoothing of a paused frame is the raw frame delta.
ResolveTimeStepContract ==
    (call.fn = "resolveTimeStep" /\ call.error = "none")
        => LET isPlaying       == call.args[1]
               simulationDelta == call.args[2]
               rawDelta        == call.args[3]
           IN  /\ isPlaying => call.result = simulationDelta
               /\ ~isPlaying => call.result = (IF rawDelta = NaN THEN NaN
                                               ELSE IF rawDelta > 0 THEN rawDelta ELSE 0)

\* C11, its case: the component asked for the step of a paused frame whose raw
\* delta is positive and differs from the simulation delta
PausedStepIsRawDelta ==
    /\ call.via = "component" /\ call.fn = "resolveTimeStep" /\ call.error = "none"
    /\ call.args[1] = FALSE /\ call.args[3] # NaN /\ call.args[3] > 0
    /\ call.args[2] # call.args[3]
    /\ call.result = call.args[3]

\* C12: whatever rawDelta and timeScale are (negative and NaN included), playing
\* or paused, computeSimulationDelta returns a number that is not NaN and is
\* >= 0, so no frame advances the simulation by a negative or NaN delta.
SimulationDeltaSanitized ==
    (call.fn = "computeSimulationDelta" /\ call.error = "none")
        => (call.result # NaN /\ call.result >= 0)

-----------------------------------------------------------------------------
(* Properties of SeededRandom                                              *)

\* (seed * 1664525 + 1013904223) mod 2^32 on the integers, with
\* 1664525 = 25 * 2^16 + 26125 and 1013904223 = 15470 * 2^16 + 62303
LcgExact(seed) ==
    LET low  == seed[2] * 26125 + 62303
        high == seed[1] * 26125 + seed[2] * 25 + 15470 + (low \div 65536)
    IN  << high % 65536, low % 65536 >>

\* C13: for a seed that is an integer of [0, 2^32), a call of next() sets the
\* seed to exactly (seed * 1664525 + 1013904223) mod 2^32, the intermediate
\* product losing no precision, keeps it an integer of [0, 2^32), and returns
\* seed / 2^32, a value of [0, 1).
LcgStepIsExact ==
    [][ rngTrace'.calls = rngTrace.calls + 1
          => /\ LcgProduct(rng)[4] < 32
             /\ rng' = LcgExact(rng)
             /\ rng'[1] >= 0 /\ rng'[1] < 65536 /\ rng'[2] >= 0 /\ rng'[2] < 65536
             /\ rngTrace'.out[Len(rngTrace'.out)] = rng' ]_vars

\* C13, its case: next() was called on the largest seed, 2^32 - 1, and returned
\* 1012239698 / 2^32
NextFromLargestSeed ==
    /\ rngTrace.s = << 65535, 65535 >>
    /\ rngTrace.out = << << 15445, 36178 >> >>
    /\ rng = << 15445, 36178 >>

\* C14: after reset(s), however many draws were made before, the values next()
\* returns are those a freshly constructed SeededRandom(s) returns.
ResetRestartsSequence ==
    rngTrace.out = SeededDraws(NewSeededRandom(rngTrace.s), Len(rngTrace.out))

\* C14, its case: draws were made, the instance was reset to another seed, and
\* two values have been drawn since
DrawnAfterReset ==
    /\ rngTrace.calls > Len(rngTrace.out)
    /\ Len(rngTrace.out) >= 2
    /\ rngTrace.s = << 0, 12345 >>
    /\ rngTrace.out[1] = << 1337, 7236 >>

-----------------------------------------------------------------------------
(* Properties of the sampler                                               *)

\* C15: the speed sampler never takes the logarithm of a zero uniform: every u1
\* and u3 an explosion used lies in the open interval (0, 1).
NoLogOfZeroUniform ==
    \A i \in 1..Len(lastExplosion.logUniforms) :
        LET u == lastExplosion.logUniforms[i]
        IN  u # << 0, 0 >> /\ u[1] >= 0 /\ u[1] < Limb /\ u[2] >= 0 /\ u[2] < Limb

-----------------------------------------------------------------------------
(* Properties of the fragments and of the gas buffer                       *)

\* C16: once a shape is decomposed, no explode, tick or reset changes the number
\* of fragments or the mass of a fragment, so the sum of the fragment masses is
\* the same at every explosion of that shape.
FragmentMassesFixed ==
    [][ /\ currentObject'.shape = currentObject.shape
            => Masses(preCreatedChunks') = Masses(preCreatedChunks)
        /\ (/\ lastExplosion.n > 0
            /\ lastExplosion'.n = lastExplosion.n + 1
            /\ lastExplosion'.shape = lastExplosion.shape)
            => /\ lastExplosion'.masses = lastExplosion.masses
               /\ lastExplosion'.totalMass = lastExplosion.totalMass ]_vars

\* C16, its case: the sphere was exploded, stepped and exploded again, with the
\* total fragment mass 20.428 both times
SameMassAtSecondExplosion ==
    /\ lastExplosion.n = 2 /\ simTime > 0
    /\ lastExplosion.shape = "sphere"
    /\ prevExplosion.shape = "sphere"
    /\ prevExplosion.totalMass = 20428 /\ lastExplosion.totalMass = 20428
    /\ Masses(preCreatedChunks) = lastExplosion.masses

\* C17: from its creation on a gas buffer holds exactly 10000 particles, and no
\* step changes the velocity or the colour of a particle or the number of
\* particles: a tick changes positions, age, opacity and size only.
GasBufferFixed ==
    [][ \A i \in 1..Len(gasHeap') :
          /\ gasHeap'[i].count = 10000
          /\ i <= Len(gasHeap)
                => /\ gasHeap'[i].count = gasHeap[i].count
                   /\ gasHeap'[i].velocities = gasHeap[i].velocities
                   /\ gasHeap'[i].colors = gasHeap[i].colors
                   /\ Len(gasHeap'[i].positions) = Len(gasHeap[i].positions) ]_vars

\* C17, its case: the current gas buffer has been stepped and still has the
\* velocities its explosion gave it
GasBufferStepped ==
    /\ gasParticles # 0
    /\ gasHeap[gasParticles].age > 0 /\ gasHeap[gasParticles].opacity < 100
    /\ gasHeap[gasParticles].count = 10000
    /\ gasHeap[gasParticles].velocities = lastExplosion.gasVelocities
    /\ gasHeap[gasParticles].positions # lastExplosion.gasPositions
    /\ \A axis \in 1..3 : gasHeap[gasParticles].positions[1][axis] # NaN

\* C18: the decomposition yields 216 fragments for the cube, 72 for the sphere,
\* 60 for the cone, 80 for the cylinder and 96 for the ring, so at least 60 for
\* every supported shape.
FragmentCounts ==
    currentObject.shape \in SupportedShapes
        => /\ ChunkCount(currentObject.shape) =
                 [ cube |-> 216, sphere |-> 72, cone |-> 60, cylinder |-> 80, ring |-> 96 ]
                     [currentObject.shape]
           /\ ChunkCount(currentObject.shape) >= 60
           /\ Len(preCreatedChunks) = TrackedChunks(currentObject.shape)

\* C18, its case: the cone, the shape of the fewest fragments, was decomposed
ConeDecomposed ==
    /\ currentObject.shape = "cone" /\ ui.selectedShape = "cone"
    /\ ChunkCount("cone") = 60
    /\ Len(preCreatedChunks) > 0 /\ preCreatedChunks[1].initialPos = << 37, -45, 21 >>

-----------------------------------------------------------------------------
(* Properties of the momentum correction                                   *)

\* the velocities of an explosion record, fragments first, then gas
FinalVelocities(ex) == ex.velocities \o ex.gasVelocities
RawVelocities(ex) == ex.rawVelocities \o ex.gasRawVelocities

\* C19: the momentum correction adds one and the same vector to every fragment
\* velocity and every gas velocity: for any two particles of an explosion, the
\* difference of their final velocities is the difference of their raw
\* (PHYS_SCALE-scaled) velocities.
CorrectionIsUniformShift ==
    lastExplosion.n > 0 =>
        \A i, j \in 1..Len(FinalVelocities(lastExplosion)) :
            \A axis \in 1..3 :
                LET final == Sub(FinalVelocities(lastExplosion)[i][axis],
                                 FinalVelocities(lastExplosion)[j][axis])
                    raw   == Sub(RawVelocities(lastExplosion)[i][axis],
                                 RawVelocities(lastExplosion)[j][axis])
                IN  final # NaN /\ raw # NaN /\ final = raw

-----------------------------------------------------------------------------
(* Properties of the scene and of the handlers                             *)

\* C21: at most one gas buffer is present in the scene, and a gas buffer
\* present in the scene is the one gasParticles references, so that frames age
\* it and it is destroyed in the end.
OneGasBufferInScene ==
    /\ Cardinality(sceneGas) <= 1
    /\ \A i \in sceneGas : i = gasParticles

\* C22: an explosion uses the configuration in force when it is triggered: the
\* temperature, the gas toggle, the seed mode and the seed value it reads are
\* those last set before the call of explode, and gas is made exactly when the
\* gas toggle is on.
ExplosionUsesCurrentConfig ==
    lastExplosion.n > 0 =>
        /\ lastExplosion.used.explosionSpeed = lastExplosion.config.explosionSpeed
        /\ lastExplosion.used.enableGas = lastExplosion.config.enableGas
        /\ lastExplosion.used.useRandomSeed = lastExplosion.config.useRandomSeed
        /\ lastExplosion.used.randomSeed = lastExplosion.config.randomSeed
        /\ (Len(lastExplosion.gasVelocities) > 0) = lastExplosion.config.enableGas

\* C23: a frame of simulation delta d moves every live fragment by velocity * d
\* and every gas particle by velocity * d * 10, and adds d to the gas age.
FrameIntegrates ==
    [][ simTime' > simTime =>
          LET d == simTime' - simTime
          IN  /\ explosionChunksRef = "preCreated" =>
                    \A i \in 1..Len(preCreatedChunks) :
                        preCreatedChunks'[i].position =
                            VAdd(preCreatedChunks[i].position,
                                 VScale(preCreatedChunks[i].velocity, d))
              /\ gasParticles # 0 =>
                    /\ gasHeap'[gasParticles].age = Add(gasHeap[gasParticles].age, d)
                    /\ \A j \in 1..Len(gasHeap[gasParticles].positions) :
                          gasHeap'[gasParticles].positions[j] =
                              VAdd(gasHeap[gasParticles].positions[j],
                                   VScale(gasHeap[gasParticles].velocities[j], d * 10)) ]_vars

\* C23, its case: a frame has moved a fragment of finite velocity and the gas
\* particle, and the gas has the age of the simulated time
FragmentsAndGasMoved ==
    /\ simTime > 0 /\ gasParticles # 0 /\ gasHeap[gasParticles].age = simTime
    /\ Len(explosionChunks) >= 2
    /\ \A axis \in 1..3 : explosionChunks[2].position[axis] # NaN
    /\ explosionChunks[2].position # explosionChunks[2].initialPos
    /\ \A axis \in 1..3 : gasHeap[gasParticles].positions[1][axis] # NaN
    /\ gasHeap[gasParticles].velocities[1] # Zero3

\* C24: the centre of mass a frame leaves is the mass-weighted average of the
\* fragment positions that frame leaves for the live fragments, and the origin
\* when no fragment is live.
CenterOfMassOfFrameOutput ==
    [][ simTime' > simTime =>
          IF explosionChunksRef' = "preCreated" /\ Len(preCreatedChunks') > 0
          THEN WithinRounding(
                   VScale(centerOfMass', SumMass(preCreatedChunks', Len(preCreatedChunks'))),
                   WeightedSum([ i \in 1..Len(preCreatedChunks') |-> preCreatedChunks'[i].position ],
                               Masses(preCreatedChunks'), Len(preCreatedChunks')),
                   SumMass(preCreatedChunks', Len(preCreatedChunks')))
          ELSE centerOfMass' = Zero3 ]_vars

\* C25: reset returns every fragment to its initial position, with zero
\* rotation and hidden, empties the live fragment set, destroys the gas buffer
\* whatever its age, so that no gas is left in the scene, sets the centre of
\* mass to the origin and clears the exploded flag; it leaves the configured
\* CoM velocity, the fragment masses and the fragment count as they are.
ResetRestores ==
    [][ (ui.isExploded /\ ~ui'.isExploded /\ edits' = edits) =>
          /\ \A i \in 1..Len(preCreatedChunks') :
                /\ preCreatedChunks'[i].position = preCreatedChunks'[i].initialPos
                /\ preCreatedChunks'[i].rotation = << 0, 0 >>
                /\ ~preCreatedChunks'[i].visible
          /\ explosionChunksRef' = "empty"
          /\ gasParticles' = 0 /\ sceneGas' = {}
          /\ gasParticles # 0 => gasHeap'[gasParticles].disposed
          /\ centerOfMass' = Zero3
          /\ comVel' = comVel /\ ui'.comVelocity = ui.comVelocity
          /\ Masses(preCreatedChunks') = Masses(preCreatedChunks) ]_vars

\* C26: changing the shape replaces the whole fragment set by a fresh
\* decomposition of the new shape: afterwards no old fragment is live, there
\* is no gas buffer, the simulation is not exploded and every new fragment has
\* zero velocity and is hidden at its initial position.
ShapeChangeReplacesFragments ==
    [][ currentObject'.shape # currentObject.shape =>
          /\ Len(preCreatedChunks') = TrackedChunks(currentObject'.shape)
          /\ \A i \in 1..Len(preCreatedChunks') :
                /\ preCreatedChunks'[i].initialPos = pieceTable[currentObject'.shape][i][1]
                /\ preCreatedChunks'[i].position = preCreatedChunks'[i].initialPos
                /\ preCreatedChunks'[i].velocity = Zero3
                /\ ~preCreatedChunks'[i].visible
          /\ explosionChunksRef' = "empty"
          /\ gasParticles' = 0 /\ sceneGas' = {}
          /\ ~ui'.isExploded ]_vars

\* C27: in seeded mode one explosion draws from the one generator rng in one
\* uninterrupted sequence, six draws per fragment in list order and then twelve
\* per gas particle, and the velocities are made from these draws in that
\* order; no frame, clock call, reset or shape change consumes a draw.
SeededExplosionDrawOrder ==
    [][ IF lastExplosion'.n # lastExplosion.n
        THEN lastExplosion'.config.useRandomSeed =>
               LET n == Len(lastExplosion'.masses)
                   count == Len(lastExplosion'.gasVelocities)
                   d == SeededDraws(SeededRandomReset(lastExplosion'.config.randomSeed),
                                    6 * n + 12 * count)
               IN  /\ rngTrace'.calls = rngTrace.calls + 6 * n + 12 * count
                   /\ rngTrace'.out = d
                   /\ rng' = RngAfter(TRUE, lastExplosion'.config.randomSeed, 6 * n + 12 * count)
                   /\ lastExplosion'.rawVelocities =
                        ChunkVelocities(d, n, lastExplosion'.config.explosionSpeed)
        ELSE rng' = rng /\ rngTrace' = rngTrace ]_vars

\* C28: a velocity is set by the explosion and is constant afterwards: no
\* frame, pause, time-scale change, target-velocity change or frame-mode
\* change alters the velocity of any fragment or of any gas particle.
VelocitiesConstantBetweenExplosions ==
    [][ ( /\ lastExplosion'.n = lastExplosion.n
          /\ \/ simTime' # simTime
             \/ call' # call
             \/ refs'.isPlaying # refs.isPlaying
             \/ comVel' # comVel
             \/ frameIsCoMSetting' # frameIsCoMSetting )
        => /\ Len(preCreatedChunks') = Len(preCreatedChunks)
           /\ \A i \in 1..Len(preCreatedChunks) :
                 preCreatedChunks'[i].velocity = preCreatedChunks[i].velocity
           /\ Len(gasHeap') = Len(gasHeap)
           /\ \A i \in 1..Len(gasHeap) : gasHeap'[i].velocities = gasHeap[i].velocities ]_vars

\* after an explosion a frame has run and the target velocity has been changed,
\* and the fragments and the gas still have the velocities of the explosion
VelocitiesKeptAfterFrameAndEdit ==
    /\ lastExplosion.n = 1 /\ simTime > 0
    /\ comVel # lastExplosion.comVel
    /\ Len(explosionChunks) >= 2
    /\ \A i \in 1..Len(explosionChunks) :
          /\ explosionChunks[i].velocity = lastExplosion.velocities[i]
          /\ explosionChunks[i].velocity # Zero3
          /\ \A c \in 1..3 : explosionChunks[i].velocity[c] # NaN
          /\ explosionChunks[i].position # explosionChunks[i].initialPos
    /\ gasParticles # 0
    /\ gasHeap[gasParticles].velocities = lastExplosion.gasVelocities
    /\ gasHeap[gasParticles].velocities[1] # Zero3

\* C29: while paused, or with time scale 0, a frame leaves every fragment
\* position and rotation, every gas particle position, the age, opacity and
\* size of the gas and the existence of the gas buffer as they are.
PausedFrameChangesNothing ==
    [][ ( /\ call' # call /\ call'.fn = "resolveTimeStep" /\ call'.via = "component"
          /\ (~refs.isPlaying \/ refs.timeScale = 0) )
        => /\ \A i \in 1..Len(preCreatedChunks) :
                 /\ preCreatedChunks'[i].position = preCreatedChunks[i].position
                 /\ preCreatedChunks'[i].rotation = preCreatedChunks[i].rotation
           /\ gasParticles' = gasParticles /\ sceneGas' = sceneGas
           /\ \A i \in 1..Len(gasHeap) :
                 /\ gasHeap'[i].positions = gasHeap[i].positions
                 /\ gasHeap'[i].age = gasHeap[i].age
                 /\ gasHeap'[i].opacity = gasHeap[i].opacity
                 /\ gasHeap'[i].size = gasHeap[i].size ]_vars

\* C30: loadThreeModule is memoised with retry.  While an import is pending or
\* has succeeded, a call returns the one cached promise and starts no import;
\* the promise kept in threeModulePromise is never a rejected one, and once a
\* failed import has been handled a call starts a fresh import and returns the
\* promise of that import.
LoadThreeModuleMemoised ==
    [][ /\ loader'.threeModulePromise # 0 =>
             loader'.imports[loader'.threeModulePromise].catchP # "rejected"
        /\ Len(loader'.calls) > Len(loader.calls) =>
             LET made == loader'.calls[Len(loader'.calls)]
                 last == Len(loader.imports)
             IN  IF last > 0 /\ loader.imports[last].catchP # "rejected"
                 THEN /\ loader'.imports = loader.imports
                      /\ made.returned = last
                      /\ \A c \in 1..Len(loader.calls) :
                            loader.calls[c].returned = last => made.returned = loader.calls[c].returned
                 ELSE /\ Len(loader'.imports) = last + 1
                      /\ made.returned = last + 1
                      /\ loader'.imports[made.returned].catchP = "pending" ]_vars

\* a first import failed, two calls made after it share the promise of the
\* second import, which succeeded, and both calls have been fulfilled with it
RetriedAndShared ==
    /\ Len(loader.imports) = 2
    /\ loader.imports[1].catchP = "rejected"
    /\ loader.imports[2].catchP = "fulfilled"
    /\ Len(loader.calls) = 3
    /\ loader.calls[1].returned = 1 /\ loader.calls[1].result = "rejected"
    /\ loader.calls[2].returned = 2 /\ loader.calls[2].result = "fulfilled"
    /\ loader.calls[3].returned = 2 /\ loader.calls[3].result = "fulfilled"
    /\ ~loader.calls[3].started
    /\ loader.threeModulePromise = 2 /\ loader.windowTHREE = 2

====
